---- MODULE Spec2Model ----
(***************************************************************************)
(* The demo API route (src/routes/api/demo.ts) and the root route with its *)
(* server function, loader and component (the route module after line 20   *)
(* of vite.config.ts), as a state machine.                                 *)
(*                                                                         *)
(* A JavaScript string is a sequence of one-character strings.  A value    *)
(* that may be null is a record [t, v] with t = "string" or t = "null".    *)
(* An optional value is a sequence of length 0 or 1.                       *)
(***************************************************************************)
EXTENDS Integers, Sequences, FiniteSets

\* ------------------------------------------------------------------ bounds
MaxPages == 2
MaxClientRequests == 2
MaxDirectRequests == 1
MaxAgentLen == 1

Pages == 1..MaxPages

\* A connection to /api/demo: page load p's outbound request travels on
\* connection p, the requests of other clients on the connections after those.
Clients == (MaxPages + 1)..(MaxPages + MaxClientRequests)
Connections == Pages \cup Clients

\* ------------------------------------------------------------ JS strings
RECURSIVE SeqsUpTo(_, _)
SeqsUpTo(S, n) ==
    IF n = 0 THEN {<<>>}
    ELSE LET shorter == SeqsUpTo(S, n - 1)
         IN  shorter \cup {Append(s, c) : s \in shorter, c \in S}

Quote == "\""
Backslash == "\\"
Tab == "\t"

\* The characters of a header value that JSON must escape.
Alphabet == {Quote, Backslash}

NullWord == <<"n", "u", "l", "l">>
NodeAgent == <<"n", "o", "d", "e">>
TabAgent == <<"a", Tab, "b">>

\* The values headers.get("user-agent") can return when the header is present.
Agents == SeqsUpTo(Alphabet, MaxAgentLen) \cup {NullWord, NodeAgent, TabAgent}

Str(s) == [t |-> "string", v |-> s]
Null == [t |-> "null", v |-> <<>>]

None == <<>>
Some(x) == <<x>>

\* ---------------------------------------------------------------- headers
\* A Headers object is a set of <<name, value>> pairs, one pair a name at most.
UserAgentHeaders == {{}} \cup {{<<"user-agent", a>>} : a \in Agents}
AcceptHeaders == {{}, {<<"accept", <<"*", "/", "*">> >>}}
ClientHeaders == {u \cup a : u \in UserAgentHeaders, a \in AcceptHeaders}

\* The browsers that ask for the page.
BrowserAgents == {<<"a">>, NodeAgent}

\* The headers of a page request from a browser with the given user-agent.
PageHeaders(agent) == {<<"user-agent", agent>>}

\* A browser that opens /api/demo itself sends its own user-agent.
DirectHeaders == {PageHeaders(<<"a">>)}

\* The default headers the server's runtime gives a fetch with no init: it may
\* or may not add a user-agent of its own.
RuntimeHeaders ==
    {{<<"accept", <<"*", "/", "*">> >>} \cup u : u \in {{}, {<<"user-agent", NodeAgent>>}}}

HeadersGet(headers, name) ==
    IF \E h \in headers : h[1] = name
    THEN Str((CHOOSE h \in headers : h[1] = name)[2])
    ELSE Null

\* ------------------------------------------------------------------- JSON
ObjectOpen == <<"{", Quote, "m", "e", "s", "s", "a", "g", "e", Quote, ":">>
ObjectClose == <<"}">>

\* Mutant of EscapeChar: no character is escaped.
EscapeChar_raw(c) == <<c>>

EscapeChar(c) ==
    CASE c = Quote -> <<Backslash, Quote>>
      [] c = Backslash -> <<Backslash, Backslash>>
      [] c = Tab -> <<Backslash, "t">>
      [] OTHER -> <<c>>

RECURSIVE Escape(_)
Escape(s) == IF s = <<>> THEN <<>> ELSE EscapeChar(Head(s)) \o Escape(Tail(s))

\* JSON.stringify({ message }) as Response.json applies it.
JSONStringify(obj) ==
    ObjectOpen \o <<Quote>> \o Escape(obj.message) \o <<Quote>> \o ObjectClose

SyntaxError == [ok |-> FALSE, value |-> [message |-> <<>>]]

\* The string literal of text that starts at index i (after its opening quote):
\* [ok, value, next], next the index after the closing quote.
RECURSIVE ScanString(_, _, _)
ScanString(text, i, acc) ==
    IF i > Len(text) THEN [ok |-> FALSE, value |-> acc, next |-> i]
    ELSE LET c == text[i] IN
         CASE c = Quote -> [ok |-> TRUE, value |-> acc, next |-> i + 1]
           [] c = Tab -> [ok |-> FALSE, value |-> acc, next |-> i]
           [] c = Backslash ->
                IF i + 1 > Len(text) THEN [ok |-> FALSE, value |-> acc, next |-> i]
                ELSE LET e == text[i + 1] IN
                     CASE e = Quote -> ScanString(text, i + 2, Append(acc, Quote))
                       [] e = Backslash -> ScanString(text, i + 2, Append(acc, Backslash))
                       [] e = "/" -> ScanString(text, i + 2, Append(acc, "/"))
                       [] e = "t" -> ScanString(text, i + 2, Append(acc, Tab))
                       [] OTHER -> [ok |-> FALSE, value |-> acc, next |-> i]
           [] OTHER -> ScanString(text, i + 1, Append(acc, c))

\* response.json() on a body: the object { message } or a SyntaxError.
JSONParse(text) ==
    LET open == ObjectOpen \o <<Quote>> IN
    IF Len(text) < Len(open) \/ SubSeq(text, 1, Len(open)) # open THEN SyntaxError
    ELSE LET s == ScanString(text, Len(open) + 1, <<>>) IN
         IF s.ok /\ SubSeq(text, s.next, Len(text)) = ObjectClose
         THEN [ok |-> TRUE, value |-> [message |-> s.value]]
         ELSE SyntaxError

\* ------------------------------------------------------- the API handler
Greeting ==
    <<"H", "e", "l", "l", "o", " ", Quote, "/", "a", "p", "i", "/", "d", "e", "m", "o",
      Quote, "!", " ", "A", "g", "e", "n", "t", ":", " ">>

\* Mutant of ToString: null is rendered as undefined.
ToString_undefined(x) ==
    IF x.t = "null" THEN <<"u", "n", "d", "e", "f", "i", "n", "e", "d">> ELSE x.v

\* ${agent} in a template literal.
ToString(x) == IF x.t = "null" THEN NullWord ELSE x.v

\* Mutant of Template: a full stop follows the agent.
Template_trailing(agent) == Greeting \o ToString(agent) \o <<".">>

\* `Hello "/api/demo"! Agent: ${agent}`
Template(agent) == Greeting \o ToString(agent)

\* Response.json(data) with no init.
ResponseJson(obj) == [kind |-> "response", status |-> 200, body |-> JSONStringify(obj)]

Pending == [kind |-> "pending", status |-> 0, body |-> <<>>]

\* Mutant of GET: without a user-agent the accept header stands in for it.
GET_acceptFallback(request) ==
    LET agent == HeadersGet(request.headers, "user-agent")
        other == HeadersGet(request.headers, "accept")
    IN  ResponseJson([message |-> Template(IF agent = Null THEN other ELSE agent)])

GET(request) ==
    LET agent == HeadersGet(request.headers, "user-agent")
    IN  ResponseJson([message |-> Template(agent)])

\* ------------------------------------------------------------------ state
VARIABLES
    runtimeHeaders,\* the default headers of the server runtime's fetch
    requests,      \* requests[c]: the GET request to /api/demo on connection c
    results,       \* results[c]: what the handler returned for requests[c]
    pc,            \* pc[p]: where page load p stands
    browserAgent,  \* browserAgent[p]: the user-agent of the page request
    sent,          \* sent[p]: how many outbound requests page load p issued
    response,      \* response[p]: the server function's `response`
    data,          \* data[p]: the server function's `data`
    loaderData,    \* loaderData[p]: what the loader resolved with
    rendered,      \* rendered[p]: the text App rendered
    failure,       \* failure[p]: which await rejected, if any
    trace          \* trace[p]: the events of page load p, in order

vars == <<runtimeHeaders, requests, results, pc, browserAgent, sent, response, data, loaderData,
          rendered, failure, trace>>

pageVars == <<runtimeHeaders, pc, browserAgent, sent, response, data, loaderData, rendered,
              failure, trace>>

Init ==
    /\ runtimeHeaders \in RuntimeHeaders
    /\ requests = [c \in Connections |-> None]
    /\ results = [c \in Connections |-> Pending]
    /\ pc = [p \in Pages |-> "idle"]
    /\ browserAgent = [p \in Pages |-> None]
    /\ sent = [p \in Pages |-> 0]
    /\ response = [p \in Pages |-> None]
    /\ data = [p \in Pages |-> None]
    /\ loaderData = [p \in Pages |-> None]
    /\ rendered = [p \in Pages |-> None]
    /\ failure = [p \in Pages |-> "none"]
    /\ trace = [p \in Pages |-> <<>>]

\* -------------------------------------------------------------- the server
\* Another client sends GET /api/demo, on the first free connection.
ClientRequest(headers, max) ==
    \E c \in Clients :
        /\ c <= MaxPages + max
        /\ requests[c] = None
        /\ \A b \in Clients : b < c => requests[b] # None
        /\ requests' = [requests EXCEPT ![c] = Some([headers |-> headers])]
        /\ UNCHANGED <<results, pageVars>>

\* Mutant of HandleGET: the first response made is kept and served again.
HandleGET_cached(c) ==
    /\ requests[c] # None
    /\ results[c] = Pending
    /\ LET made == {d \in Connections : results[d] # Pending}
       IN  results' = [results EXCEPT ![c] =
                          IF made = {} THEN GET(requests[c][1])
                          ELSE results[CHOOSE d \in made : TRUE]]
    /\ UNCHANGED <<requests, pageVars>>

\* The route's GET handler runs on the request of connection c.
HandleGET(c) ==
    /\ requests[c] # None
    /\ results[c] = Pending
    /\ results' = [results EXCEPT ![c] = GET(requests[c][1])]
    /\ UNCHANGED <<requests, pageVars>>

\* ------------------------------------------------------------ a page load
\* Mutant of App: the greeting alone is rendered.
App_static(ld) == Greeting

\* The text App renders from the loader data.
App(ld) == ld.message

\* Mutant of OutboundHeaders: the page request's headers are forwarded.
OutboundHeaders_forward(pageHeaders) == pageHeaders

\* The headers of fetch("http://localhost:3000/api/demo"), called while the
\* page request with pageHeaders is served: no init, so the runtime's own.
OutboundHeaders(pageHeaders) == runtimeHeaders

\* A browser asks for "/": the loader calls getMessageFn, which calls fetch.
PageLoad(p, agent) ==
    /\ pc[p] = "idle"
    /\ browserAgent' = [browserAgent EXCEPT ![p] = Some(agent)]
    /\ requests' = [requests EXCEPT ![p] =
                        Some([headers |-> OutboundHeaders(PageHeaders(agent))])]
    /\ results' = [results EXCEPT ![p] = Pending]
    /\ sent' = [sent EXCEPT ![p] = @ + 1]
    /\ pc' = [pc EXCEPT ![p] = "fetch"]
    /\ trace' = [trace EXCEPT ![p] = Append(@, "sent")]
    /\ UNCHANGED <<runtimeHeaders, response, data, loaderData, rendered, failure>>

\* Mutant of FetchReject: the failed page load starts over and fetches again.
FetchReject_retry(p) ==
    /\ pc[p] = "fetch"
    /\ sent[p] < 2
    /\ pc' = [pc EXCEPT ![p] = "idle"]
    /\ failure' = [failure EXCEPT ![p] = "network"]
    /\ trace' = [trace EXCEPT ![p] = <<>>]
    /\ UNCHANGED <<runtimeHeaders, requests, results, browserAgent, sent, response,
                   data, loaderData, rendered>>

\* await fetch(...) rejects: the connection failed.
FetchReject(p) ==
    /\ pc[p] = "fetch"
    /\ pc' = [pc EXCEPT ![p] = "rejected"]
    /\ failure' = [failure EXCEPT ![p] = "network"]
    /\ trace' = [trace EXCEPT ![p] = Append(@, "rejected")]
    /\ UNCHANGED <<runtimeHeaders, requests, results, browserAgent, sent, response, data,
                   loaderData, rendered>>

\* await fetch(...) resolves with the response to this page load's request.
FetchResolve(p) ==
    /\ pc[p] = "fetch"
    /\ results[p] # Pending
    /\ response' = [response EXCEPT ![p] = Some(results[p])]
    /\ pc' = [pc EXCEPT ![p] = "json"]
    /\ trace' = [trace EXCEPT ![p] = Append(@, "received")]
    /\ UNCHANGED <<runtimeHeaders, requests, results, browserAgent, sent, data, loaderData,
                   rendered, failure>>

\* The body as response.json() reads it: whole, or cut short by the connection.
BodiesRead(body) ==
    {body} \cup {SubSeq(body, 1, k) : k \in {0, Len(body) \div 2, Len(body) - 1}}

\* Mutant of ReadJson: a body that does not parse yields an empty message.
ReadJson_fallback(p) ==
    /\ pc[p] = "json"
    /\ \E body \in BodiesRead(response[p][1].body) :
         LET parsed == JSONParse(body) IN
         /\ data' = [data EXCEPT ![p] = Some(parsed.value)]
         /\ failure' = [failure EXCEPT ![p] = IF parsed.ok THEN @ ELSE "parse"]
    /\ pc' = [pc EXCEPT ![p] = "return"]
    /\ trace' = [trace EXCEPT ![p] = Append(@, "parsed")]
    /\ UNCHANGED <<runtimeHeaders, requests, results, browserAgent, sent, response,
                   loaderData, rendered>>

\* await response.json() settles.
ReadJson(p) ==
    /\ pc[p] = "json"
    /\ \E body \in BodiesRead(response[p][1].body) :
         LET parsed == JSONParse(body) IN
         IF parsed.ok
         THEN /\ data' = [data EXCEPT ![p] = Some(parsed.value)]
              /\ pc' = [pc EXCEPT ![p] = "return"]
              /\ trace' = [trace EXCEPT ![p] = Append(@, "parsed")]
              /\ UNCHANGED failure
         ELSE /\ pc' = [pc EXCEPT ![p] = "rejected"]
              /\ failure' = [failure EXCEPT ![p] = "parse"]
              /\ trace' = [trace EXCEPT ![p] = Append(@, "rejected")]
              /\ UNCHANGED data
    /\ UNCHANGED <<runtimeHeaders, requests, results, browserAgent, sent, response, loaderData,
                   rendered>>

\* return data; await getMessageFn() resumes and the loader resolves.
LoaderResolve(p) ==
    /\ pc[p] = "return"
    /\ loaderData' = [loaderData EXCEPT ![p] = data[p]]
    /\ pc' = [pc EXCEPT ![p] = "loaded"]
    /\ trace' = [trace EXCEPT ![p] = Append(@, "resolved")]
    /\ UNCHANGED <<runtimeHeaders, requests, results, browserAgent, sent, response, data,
                   rendered, failure>>

\* Mutant of Render: the component renders without waiting for the loader.
Render_early(p) ==
    /\ pc[p] \in {"fetch", "json", "return", "loaded"}
    /\ rendered' = [rendered EXCEPT ![p] =
                        Some(IF loaderData[p] = None THEN <<>> ELSE loaderData[p][1].message)]
    /\ pc' = [pc EXCEPT ![p] = "rendered"]
    /\ trace' = [trace EXCEPT ![p] = Append(@, "rendered")]
    /\ UNCHANGED <<runtimeHeaders, requests, results, browserAgent, sent, response,
                   data, loaderData, failure>>

\* The route's component renders with Route.useLoaderData().
Render(p) ==
    /\ pc[p] = "loaded"
    /\ rendered' = [rendered EXCEPT ![p] = Some(App(loaderData[p][1]))]
    /\ pc' = [pc EXCEPT ![p] = "rendered"]
    /\ trace' = [trace EXCEPT ![p] = Append(@, "rendered")]
    /\ UNCHANGED <<runtimeHeaders, requests, results, browserAgent, sent, response, data,
                   loaderData, failure>>

Next ==
    \/ \E h \in DirectHeaders : ClientRequest(h, MaxDirectRequests)
    \/ \E c \in Connections : HandleGET(c)
    \/ \E p \in Pages, a \in BrowserAgents : PageLoad(p, a)
    \/ \E p \in Pages : FetchReject(p)
    \/ \E p \in Pages : FetchResolve(p)
    \/ \E p \in Pages : ReadJson(p)
    \/ \E p \in Pages : LoaderResolve(p)
    \/ \E p \in Pages : Render(p)

Spec == Init /\ [][Next]_vars

\* The API route alone, under requests with every header combination.
NextApi ==
    \/ \E h \in ClientHeaders : ClientRequest(h, MaxClientRequests)
    \/ \E c \in Connections : HandleGET(c)

SpecApi == Init /\ [][NextApi]_vars

\* ------------------------------------------------------------- properties
Handled(c) == requests[c] # None /\ results[c] # Pending

\* The user-agent values the request of connection c carries.
CarriedAgents(c) == {h[2] : h \in {g \in requests[c][1].headers : g[1] = "user-agent"}}

\* The message field of a JSON body, when the body parses.
MessageOf(body) == JSONParse(body).value.message

Contains(s, sub) ==
    \E i \in 1..(Len(s) - Len(sub) + 1) : SubSeq(s, i, i + Len(sub) - 1) = sub

AgentNull == <<"A", "g", "e", "n", "t", ":", " ", "n", "u", "l", "l">>

Order == <<"sent", "received", "parsed", "resolved", "rendered">>

\* C1: a handled GET whose request carries user-agent X has a JSON body whose
\* message field is exactly Hello "/api/demo"! Agent: X, X unchanged and last.
C1_MessageEmbedsAgent ==
    \A c \in Connections :
        Handled(c) =>
            \A x \in CarriedAgents(c) :
                /\ JSONParse(results[c].body).ok
                /\ MessageOf(results[c].body) = Greeting \o x

\* C1 happens: handled requests whose user-agent holds a quote, a backslash,
\* and the word null.
C1_Witness ==
    /\ \E c \in Connections : Handled(c) /\ CarriedAgents(c) = {<<Quote>>}
    /\ \E c \in Connections : Handled(c) /\ CarriedAgents(c) = {NullWord}

\* C2: a handled GET whose request has no user-agent header got a normal
\* response (not a throw) whose message contains Agent: null.
C2_AbsentAgentIsNull ==
    \A c \in Connections :
        (Handled(c) /\ CarriedAgents(c) = {}) =>
            /\ results[c].kind = "response"
            /\ JSONParse(results[c].body).ok
            /\ Contains(MessageOf(results[c].body), AgentNull)

\* C2 happens: a request without a user-agent header was handled.
C2_Witness ==
    \E c \in Connections : Handled(c) /\ CarriedAgents(c) = {}

\* C4: every handled GET, whatever its headers, ended in a response of status
\* 200 whose body parses as a JSON object with just a message field.
C4_AlwaysOkJson ==
    \A c \in Connections :
        Handled(c) =>
            /\ results[c].kind = "response"
            /\ results[c].status = 200
            /\ JSONParse(results[c].body).ok
            /\ DOMAIN JSONParse(results[c].body).value = {"message"}

\* C4 happens: requests with and without a user-agent, one of them holding a
\* character JSON must escape, were handled.
C4_Witness ==
    /\ \E c \in Connections : Handled(c) /\ CarriedAgents(c) = {}
    /\ \E c \in Connections : Handled(c) /\ CarriedAgents(c) = {TabAgent}

\* C10: two handled GETs whose requests agree on the user-agent header (same
\* value, or both without one) have the same response, whatever else differs.
C10_DependsOnAgentOnly ==
    \A c, d \in Connections :
        (Handled(c) /\ Handled(d) /\ CarriedAgents(c) = CarriedAgents(d)) =>
            results[c] = results[d]

\* C10 happens: two handled requests that agree on the user-agent header and
\* differ in their other headers got the same response.
C10_Witness ==
    \E c, d \in Connections :
        /\ Handled(c) /\ Handled(d)
        /\ CarriedAgents(c) = CarriedAgents(d)
        /\ requests[c] # requests[d]
        /\ results[c] = results[d]

\* C3: what App rendered in a page load is the message of the response the
\* handler gave to that page load's own request.
C3_RenderedIsOwnMessage ==
    \A p \in Pages :
        pc[p] = "rendered" =>
            /\ Handled(p)
            /\ JSONParse(results[p].body).ok
            /\ rendered[p] = Some(MessageOf(results[p].body))

\* C3 happens: a page load has rendered while another client's request got a
\* different response.
C3_Witness ==
    \E p \in Pages, c \in Clients :
        pc[p] = "rendered" /\ Handled(c) /\ results[c] # results[p]

\* C5: a page load whose fetch or whose JSON parse failed is rejected: it has
\* issued one request, holds no data and no loader data, and rendered nothing.
C5_FailurePropagates ==
    \A p \in Pages :
        failure[p] # "none" =>
            /\ pc[p] = "rejected"
            /\ sent[p] = 1
            /\ data[p] = None
            /\ loaderData[p] = None
            /\ rendered[p] = None

\* C5 happens: one page load failed at the network, another at the parse.
C5_Witness ==
    \E p, q \in Pages : failure[p] = "network" /\ failure[q] = "parse"

InFlight == {p \in Pages : pc[p] = "fetch"}

\* C6 as claimed: every started page load has issued exactly one request and
\* at most one request is in flight over all page loads.
C6_Original ==
    /\ \A p \in Pages : pc[p] # "idle" => sent[p] = 1
    /\ Cardinality(InFlight) <= 1

\* C6 amended: every started page load has issued exactly one request, an idle
\* one none, so at most one request of a page load is ever in flight.
C6_OneRequestPerPageLoad ==
    \A p \in Pages :
        /\ sent[p] = (IF pc[p] = "idle" THEN 0 ELSE 1)
        /\ Cardinality({q \in InFlight : q = p}) <= sent[p]

\* C6 happens: a page load has finished with one request issued while the
\* request of another page load is in flight.
C6_Witness ==
    \E p, q \in Pages : pc[p] = "rendered" /\ sent[p] = 1 /\ pc[q] = "fetch"

\* C7: the events of a page load come in the order sent, received, parsed,
\* resolved, rendered (a rejection ends them), and App has rendered only
\* after the loader resolved.
C7_EventsInOrder ==
    \A p \in Pages :
        /\ \A i \in DOMAIN trace[p] :
              \/ i <= Len(Order) /\ trace[p][i] = Order[i]
              \/ i = Len(trace[p]) /\ trace[p][i] = "rejected"
        /\ rendered[p] # None => loaderData[p] # None

\* C7 happens: a page load went through all five events.
C7_Witness ==
    \E p \in Pages : trace[p] = Order /\ rendered[p] # None

\* C8: every response carries the message made from its own request alone,
\* whatever was handled before, and the server function and the loader hand
\* that message on unchanged.
C8_PayloadFreshAndUnchanged ==
    /\ \A c \in Connections :
          Handled(c) =>
              results[c].body =
                  JSONStringify([message |->
                      Template(HeadersGet(requests[c][1].headers, "user-agent"))])
    /\ \A p \in Pages :
          /\ data[p] # None =>
                data[p][1].message =
                    Template(HeadersGet(requests[p][1].headers, "user-agent"))
          /\ loaderData[p] # None => loaderData[p] = data[p]

\* C8 happens: a page load resolved with its payload after another client's
\* request with another user-agent was handled.
C8_Witness ==
    \E p \in Pages, c \in Clients :
        /\ loaderData[p] # None
        /\ Handled(c)
        /\ CarriedAgents(c) # {}
        /\ CarriedAgents(c) # CarriedAgents(p)

\* C9: the rendered message embeds the user-agent of the runtime's fetch, not
\* the browser's: the outbound request carries no header of the page request,
\* and all page loads render the same message whatever their browsers.
C9_RendersRuntimeAgent ==
    \A p \in Pages :
        /\ requests[p] # None => requests[p][1].headers = runtimeHeaders
        /\ pc[p] = "rendered" =>
              /\ rendered[p] = Some(Template(HeadersGet(runtimeHeaders, "user-agent")))
              /\ \A q \in Pages : pc[q] = "rendered" => rendered[q] = rendered[p]

\* C9 happens: two page loads from browsers with different user-agents, both
\* different from the runtime's, have rendered.
C9_Witness ==
    \E p, q \in Pages :
        /\ pc[p] = "rendered" /\ pc[q] = "rendered"
        /\ browserAgent[p] # browserAgent[q]
        /\ browserAgent[p] # Some(ToString(HeadersGet(runtimeHeaders, "user-agent")))

====
